---- MODULE Spec2Model ----
(***************************************************************************)
(* GurgenBudgetTracker (src/main.py): the transaction log, the four        *)
(* label/type catalogs, and the Analytics computations over the log.       *)
(*                                                                         *)
(* A CSV file is a sequence of rows.  A cell that the code parses (an      *)
(* amount, a date) is a record [k, v]: k says what the text is, v carries  *)
(* its number.  Amounts are whole currency units; a float is a number or   *)
(* NaN.  A datetime is a number of ticks, TicksPerDay ticks to a day, so   *)
(* that "now" has a time of day while a parsed date is a midnight.         *)
(***************************************************************************)
EXTENDS Integers, Sequences, FiniteSets, TLC

\* ---------------------------------------------------------------- bounds
MaxTx == 1          \* Spec: lines the transaction file may hold after its first
MaxCatalog == 2     \* Spec: rows the four catalogs may hold together
MaxLogTx == 2       \* SpecLog: lines the transaction file may hold after its first
MaxDay == 2         \* the wall clock reads days 0..MaxDay
TicksPerDay == 2    \* instants told apart within one day
MaxAmount == 1      \* largest amount typed into the dialog

Flows == {"Expense", "Income"}
TypeNames == {"T1", "T2"}
LabelNames == {"L1", "L2"}
Periods == {"Today", "Last 7 days", "Last 30 days", "Last 12 months", "All Time"}
Days == 0 .. MaxDay
Times == 0 .. ((MaxDay + 1) * TicksPerDay - 1)

\* ------------------------------------------------------- cells and floats
NumText(n) == [k |-> "num", v |-> n]       \* "12.0", "-3", "0"
NanText == [k |-> "nan", v |-> 0]          \* "nan"
WordText == [k |-> "word", v |-> 0]        \* text that is no number, no date
EmptyText == [k |-> "empty", v |-> 0]      \* "" or blanks
DateText(d) == [k |-> "date", v |-> d]     \* "dd/mm/YYYY" of day d

Num(n) == [k |-> "num", v |-> n]           \* a float holding n
NaN == [k |-> "nan", v |-> 0]              \* the float nan
ValueError == [k |-> "ValueError", v |-> 0]

\* float(text): a number, nan, or ValueError
float(text) ==
    CASE text.k = "num" -> Num(text.v)
      [] text.k = "nan" -> NaN
      [] OTHER -> ValueError

\* str(x) as csv.writer writes a float
str(x) == IF x.k = "nan" THEN NanText ELSE NumText(x.v)

\* x <= 0 on floats: every comparison with nan is False
FloatLeqZero(x) == x.k = "num" /\ x.v <= 0
FloatGtZero(x) == x.k = "num" /\ x.v > 0

\* datetime.now().strftime("%d/%m/%Y")
strftime(t) == DateText(t \div TicksPerDay)

\* datetime.strptime(text, "%d/%m/%Y"): the midnight of the day, or ValueError
strptime(text) == IF text.k = "date" THEN Num(text.v * TicksPerDay) ELSE ValueError

\* ------------------------------------------------------------------ rows
Row(flow, label, amount, type, date) ==
    [flow |-> flow, label |-> label, amount |-> amount, type |-> type, date |-> date]

\* the header line of transactions_database.csv
HeaderRow == Row("Flow", "Label", WordText, "Type", WordText)

NoFile == [exists |-> FALSE, lines |-> <<>>]
File(lines) == [exists |-> TRUE, lines |-> lines]

LabelRow(type, label, count) == [type |-> type, label |-> label, count |-> count]
TypeRow(name, count) == [name |-> name, count |-> count]

None == -1

VARIABLES
    tx_file,        \* user_data/transactions_database.csv
    labels,         \* user_data/{expense,income}_labels.csv, by flow
    types,          \* user_data/{expense,income}_types.csv, by flow
    cwd_types,      \* {expense,income}_types.csv of the working directory
    last            \* the handler that ran last, and what it was given

vars == <<tx_file, labels, types, cwd_types, last>>

\* ------------------------------------------------------- sequence helpers
RECURSIVE Reverse(_)
Reverse(s) == IF s = <<>> THEN <<>> ELSE Append(Reverse(Tail(s)), Head(s))

\* the element taken out counted from the other end
RemoveAt_from_the_end(s, i) == SubSeq(s, 1, Len(s) - i) \o SubSeq(s, Len(s) - i + 2, Len(s))

RemoveAt(s, i) == SubSeq(s, 1, i - 1) \o SubSeq(s, i + 1, Len(s))

\* index of the first element of s that satisfies Test, 0 when none does
FirstIndex(s, Test(_)) ==
    IF \E i \in 1 .. Len(s) : Test(s[i])
    THEN CHOOSE i \in 1 .. Len(s) :
             Test(s[i]) /\ \A j \in 1 .. (i - 1) : ~Test(s[j])
    ELSE 0

\* -------------------------------------------------- reading the log file
\* a line of fewer than 5 columns, and the test "row and len(row) >= 5"
ShortRow == [flow |-> "Expense", label |-> "L1"]
Wide(row) == "date" \in DOMAIN row

\* next(reader) on a file that holds no line raises StopIteration, which the
\* readers of the transaction file do not catch
StopIteration(file) == file.exists /\ file.lines = <<>>

\* csv.reader over the file with next(reader) skipping the first line:
\* the rows of at least 5 columns after the first line (when next(reader)
\* raises, see StopIteration, no rows are read)
DataRows(file) ==
    IF Len(file.lines) = 0 THEN <<>> ELSE SelectSeq(Tail(file.lines), Wide)

\* Transactions.load_transactions: the rows displayed, newest first
load_transactions(file) ==
    IF file.exists THEN Reverse(DataRows(file)) ELSE <<>>

\* ------------------------------------------------------ usage counters
\* update_label_count matching the label column alone
update_label_count_any_type(rows, type_name, label_name) ==
    LET Match(r) == r.label = label_name
        i == FirstIndex(rows, Match)
    IN  IF i = 0 THEN rows ELSE [rows EXCEPT ![i].count = @ + 1]

\* Transactions.update_label_count: the first row of that type and label
update_label_count(rows, type_name, label_name) ==
    LET Match(r) == r.type = type_name /\ r.label = label_name
        i == FirstIndex(rows, Match)
    IN  IF i = 0 THEN rows ELSE [rows EXCEPT ![i].count = @ + 1]

\* Transactions.update_type_count: the first row of that type
update_type_count(rows, type_name) ==
    LET Match(r) == r.name = type_name
        i == FirstIndex(rows, Match)
    IN  IF i = 0 THEN rows ELSE [rows EXCEPT ![i].count = @ + 1]

Max0(n) == IF n < 0 THEN 0 ELSE n

\* decrement_label_count without the floor at 0
decrement_label_count_no_floor(rows, type_name, label_name) ==
    LET Match(r) == r.type = type_name /\ r.label = label_name
        i == FirstIndex(rows, Match)
    IN  IF i = 0 THEN rows ELSE [rows EXCEPT ![i].count = @ - 1]

\* Transactions.decrement_label_count
decrement_label_count(rows, type_name, label_name) ==
    LET Match(r) == r.type = type_name /\ r.label = label_name
        i == FirstIndex(rows, Match)
    IN  IF i = 0 THEN rows ELSE [rows EXCEPT ![i].count = Max0(@ - 1)]

\* Transactions.decrement_type_count
decrement_type_count(rows, type_name) ==
    LET Match(r) == r.name = type_name
        i == FirstIndex(rows, Match)
    IN  IF i = 0 THEN rows ELSE [rows EXCEPT ![i].count = Max0(@ - 1)]

\* ------------------------------------------------- the transaction dialog
NoResult == [label |-> "", amount |-> ValueError]

\* what may be typed into the amount entry
AmountTexts ==
    {EmptyText, WordText, NanText} \cup {NumText(n) : n \in (-1) .. MaxAmount}

\* available_labels of add_transaction: the label column, in file order
available_labels(rows) == [i \in 1 .. Len(rows) |-> rows[i].label]

\* label_to_type answering with the type of the first row of the file
label_to_type_first_row(rows, label_name) == rows[1].type

\* label_to_type[label_name]: the dict keeps the type of the last row read
\* that carries the name
label_to_type(rows, label_name) ==
    LET i == CHOOSE i \in 1 .. Len(rows) :
                 /\ rows[i].label = label_name
                 /\ \A j \in (i + 1) .. Len(rows) : rows[j].label # label_name
    IN  rows[i].type

\* show_transaction_dialog with one press of OK (on_ok) and, when on_ok only
\* warns, Cancel.  selection is the listbox index (from 0) or None.
show_transaction_dialog(available, selection, amount_text) ==
    IF selection = None THEN NoResult
    ELSE IF amount_text.k = "empty" THEN NoResult
    ELSE LET amount == float(amount_text)
         IN  IF amount.k = "ValueError" THEN NoResult
             ELSE IF FloatLeqZero(amount) THEN NoResult
             ELSE [label |-> available[selection + 1], amount |-> amount]

\* -------------------------------------------------------- the last handler
NoRow == Row("", "", EmptyText, "", EmptyText)

Ran(op, flow, row, sel, text, done) ==
    [op |-> op, flow |-> flow, row |-> row, sel |-> sel, text |-> text, done |-> done]

\* ------------------------------------------------------------------ Init
CwdFiles == {NoFile, File(<<"T1", "T2">>)}

\* after construction: LabelsAndTypes.load_data has created the catalog
\* files that were missing; the transaction file holds its header line
Init ==
    /\ tx_file = File(<<HeaderRow>>)
    /\ labels = [f \in Flows |-> <<>>]
    /\ types = [f \in Flows |-> <<>>]
    /\ cwd_types \in {[f \in Flows |-> c] : c \in CwdFiles}
    /\ last = Ran("init", "", NoRow, None, EmptyText, FALSE)

\* ------------------------------------------------------- Transactions page
\* Transactions.add_transaction(flow_type): the dialog is answered with a
\* listbox selection and an amount text, datetime.now() returns current
add_transaction(flow_type, selection, amount_text, current) ==
    LET rows == labels[flow_type]
        available == available_labels(rows)
        result == IF available = <<>> THEN NoResult
                  ELSE show_transaction_dialog(available, selection, amount_text)
    IN  /\ UNCHANGED cwd_types
        /\ IF result = NoResult
           THEN /\ UNCHANGED <<tx_file, labels, types>>
                /\ last' = Ran("add_transaction", flow_type, NoRow, selection,
                               amount_text, FALSE)
           ELSE LET label_name == result.label
                    type_name == label_to_type(rows, label_name)
                    row == Row(flow_type, label_name, str(result.amount),
                               type_name, strftime(current))
                IN  /\ tx_file' = File(tx_file.lines \o <<row>>)
                    /\ labels' = [labels EXCEPT
                           ![flow_type] = update_label_count(@, type_name, label_name)]
                    /\ types' = [types EXCEPT
                           ![flow_type] = update_type_count(@, type_name)]
                    /\ last' = Ran("add_transaction", flow_type, row, selection,
                                   amount_text, TRUE)

\* an amount that passes the checks of the dialog
PlainTexts == {NumText(1)}

AddTransaction(texts, times, cap) ==
    /\ Len(tx_file.lines) <= cap
    /\ \E flow_type \in Flows :
        \E selection \in {None} \cup (0 .. (Len(labels[flow_type]) - 1)) :
            \E amount_text \in texts : \E current \in times :
                add_transaction(flow_type, selection, amount_text, current)

\* Transactions.decrement_usage_counts: the catalogs of the row's flow,
\* the Income ones for every flow that is not "Expense"
FlowOf(flow_type) == IF flow_type = "Expense" THEN "Expense" ELSE "Income"

\* Transactions.on_transaction_click on the line of the index-th displayed
\* row, then Transactions.delete_transaction with the confirmation answered
\* yes.  When the file cannot be read (it is missing, or next(reader) raises)
\* the except Exception of the handler shows the error and nothing changes.
delete_transaction(selected_transaction_index) ==
    LET transactions == Reverse(DataRows(tx_file))
        index == selected_transaction_index
    IN  /\ UNCHANGED cwd_types
        /\ IF ~tx_file.exists \/ StopIteration(tx_file)
           THEN /\ UNCHANGED <<tx_file, labels, types>>
                /\ last' = Ran("delete_transaction", "", NoRow, index, EmptyText, FALSE)
           ELSE IF index < Len(transactions)
           THEN LET transaction_to_delete == transactions[index + 1]
                    flow == FlowOf(transaction_to_delete.flow)
                    label_name == transaction_to_delete.label
                    type_name == transaction_to_delete.type
                    rest == Reverse(RemoveAt(transactions, index + 1))
                IN  /\ tx_file' = File(<<Head(tx_file.lines)>> \o rest)
                    /\ labels' = [labels EXCEPT
                           ![flow] = decrement_label_count(@, type_name, label_name)]
                    /\ types' = [types EXCEPT
                           ![flow] = decrement_type_count(@, type_name)]
                    /\ last' = Ran("delete_transaction", flow, transaction_to_delete,
                                   index, EmptyText, TRUE)
           ELSE /\ UNCHANGED <<tx_file, labels, types>>
                /\ last' = Ran("delete_transaction", "", NoRow, index, EmptyText, FALSE)

\* Every change of the file made by the program reloads the display and
\* clears the selection, so the selected index is one of the rows displayed.
DeleteTransaction(cap) ==
    \E index \in 0 .. (cap - 1) :
        /\ tx_file.exists
        /\ index \in 0 .. (Len(load_transactions(tx_file)) - 1)
        /\ delete_transaction(index)

\* delete_transaction with an index selected on a display older than the
\* file: the index may be past the last row
DeleteStale(cap) == \E index \in 0 .. cap : delete_transaction(index)

\* ---------------------------------------------------- Labels & Types page
CatalogRows ==
    Len(labels["Expense"]) + Len(labels["Income"])
        + Len(types["Expense"]) + Len(types["Income"])

\* LabelsAndTypes.add_item on a types file, askstring answered with item_name
add_type_item(flow, item_name) ==
    /\ CatalogRows < MaxCatalog
    /\ types' = [types EXCEPT ![flow] = Append(@, TypeRow(item_name, 0))]
    /\ last' = Ran("add_item", flow, NoRow, None, EmptyText, TRUE)
    /\ UNCHANGED <<tx_file, labels, cwd_types>>

AddTypeItem == \E flow \in Flows : \E item_name \in TypeNames : add_type_item(flow, item_name)

\* LabelsAndTypes.add_item on a labels file: the types offered are read from
\* types_filename, a path relative to the working directory, and the dialog
\* is answered with a name and a listbox selection
add_label_item(flow, item_name, selection) ==
    LET available_types == cwd_types[flow].lines
    IN  /\ CatalogRows < MaxCatalog
        /\ cwd_types[flow].exists
        /\ selection \in 0 .. (Len(available_types) - 1)
        /\ labels' = [labels EXCEPT
               ![flow] = Append(@, LabelRow(available_types[selection + 1], item_name, 0))]
        /\ last' = Ran("add_item", flow, NoRow, None, EmptyText, TRUE)
        /\ UNCHANGED <<tx_file, types, cwd_types>>

AddLabelItem ==
    \E flow \in Flows : \E item_name \in LabelNames : \E selection \in 0 .. 1 :
        add_label_item(flow, item_name, selection)

\* delete_item on a labels file that also drops the transactions of the label
delete_label_item_cascade(flow, line) ==
    LET rows == labels[flow]
        actual_item_name == rows[line].label
        Keep(r) == r.label # actual_item_name
        Stays(t) == ~(t.flow = flow /\ t.label = actual_item_name)
    IN  /\ line \in 1 .. Len(rows)
        /\ labels' = [labels EXCEPT ![flow] = SelectSeq(rows, Keep)]
        /\ tx_file' = File(<<Head(tx_file.lines)>> \o SelectSeq(DataRows(tx_file), Stays))
        /\ last' = Ran("delete_item_label", flow,
                       Row(flow, actual_item_name, EmptyText, rows[line].type, EmptyText),
                       line, EmptyText, TRUE)
        /\ UNCHANGED <<types, cwd_types>>

\* LabelsAndTypes.delete_item on a labels file with the line of row number
\* line selected: every row whose label column equals the name shown on the
\* line is dropped
delete_label_item(flow, line) ==
    LET rows == labels[flow]
        actual_item_name == rows[line].label
        Keep(r) == r.label # actual_item_name
    IN  /\ line \in 1 .. Len(rows)
        /\ labels' = [labels EXCEPT ![flow] = SelectSeq(rows, Keep)]
        /\ last' = Ran("delete_item_label", flow,
                       Row(flow, actual_item_name, EmptyText, rows[line].type, EmptyText),
                       line, EmptyText, TRUE)
        /\ UNCHANGED <<tx_file, types, cwd_types>>

DeleteLabelItem ==
    \E flow \in Flows : \E line \in 1 .. MaxCatalog : delete_label_item(flow, line)

\* LabelsAndTypes.delete_item on a types file
delete_type_item(flow, line) ==
    LET rows == types[flow]
        actual_item_name == rows[line].name
        Keep(r) == r.name # actual_item_name
    IN  /\ line \in 1 .. Len(rows)
        /\ types' = [types EXCEPT ![flow] = SelectSeq(rows, Keep)]
        /\ last' = Ran("delete_item_type", flow,
                       Row(flow, "", EmptyText, actual_item_name, EmptyText),
                       line, EmptyText, TRUE)
        /\ UNCHANGED <<tx_file, labels, cwd_types>>

DeleteTypeItem ==
    \E flow \in Flows : \E line \in 1 .. MaxCatalog : delete_type_item(flow, line)

\* ------------------------------------------------------- the specification
\* the Transactions page and the Labels & Types page over small catalogs
Next ==
    \/ AddTransaction(PlainTexts, {0}, MaxTx)
    \/ DeleteTransaction(MaxTx)
    \/ AddTypeItem
    \/ AddLabelItem
    \/ DeleteLabelItem
    \/ DeleteTypeItem

Spec == Init /\ [][Next]_vars

\* ---------------------------------------------------------------- Analytics
\* float arithmetic: nan absorbs, and compares False with everything
FloatAdd(a, b) == IF a.k = "nan" \/ b.k = "nan" THEN NaN ELSE Num(a.v + b.v)
FloatLt(a, b) == a.k = "num" /\ b.k = "num" /\ a.v < b.v

\* cutoff_date with Today's cutoff at current itself, time of day kept
cutoff_date_with_time(period, current) ==
    CASE period = "Today" -> current
      [] period = "Last 7 days" -> current - 7 * TicksPerDay
      [] period = "Last 30 days" -> current - 30 * TicksPerDay
      [] period = "Last 12 months" -> current - 365 * TicksPerDay

\* the cutoffs with the windows of 7 and of 30 days taken for each other
cutoff_date_windows_swapped(period, current) ==
    CASE period = "Today" -> (current \div TicksPerDay) * TicksPerDay
      [] period = "Last 7 days" -> current - 30 * TicksPerDay
      [] period = "Last 30 days" -> current - 7 * TicksPerDay
      [] period = "Last 12 months" -> current - 365 * TicksPerDay

\* the cutoff of Analytics.get_filtered_transactions for the four windows:
\* the midnight of current's day, or current minus 7, 30 or 365 days
cutoff_date(period, current) ==
    CASE period = "Today" -> (current \div TicksPerDay) * TicksPerDay
      [] period = "Last 7 days" -> current - 7 * TicksPerDay
      [] period = "Last 30 days" -> current - 30 * TicksPerDay
      [] period = "Last 12 months" -> current - 365 * TicksPerDay

\* get_filtered_transactions with "All Time" filtered as "Today" is
get_filtered_transactions_all_time_cut(file, period, current) ==
    IF ~file.exists THEN <<>>
    ELSE LET all_transactions == DataRows(file)
             Passes(transaction) ==
                 LET transaction_date == strptime(transaction.date)
                 IN  /\ transaction_date.k # "ValueError"
                     /\ transaction_date.v >= (current \div TicksPerDay) * TicksPerDay
         IN  SelectSeq(all_transactions, Passes)

\* get_filtered_transactions leaving out the transactions dated at the cutoff
get_filtered_transactions_strict(file, period, current) ==
    IF ~file.exists THEN <<>>
    ELSE LET all_transactions == DataRows(file)
             Passes(transaction) ==
                 LET transaction_date == strptime(transaction.date)
                 IN  /\ transaction_date.k # "ValueError"
                     /\ transaction_date.v > cutoff_date(period, current)
         IN  IF period = "All Time" THEN all_transactions
             ELSE IF period \notin {"Today", "Last 7 days", "Last 30 days",
                                    "Last 12 months"} THEN all_transactions
             ELSE SelectSeq(all_transactions, Passes)

\* Analytics.get_filtered_transactions(period), datetime.now() returning current
get_filtered_transactions(file, period, current) ==
    IF ~file.exists THEN <<>>
    ELSE LET all_transactions == DataRows(file)
             Passes(transaction) ==
                 LET transaction_date == strptime(transaction.date)
                 IN  /\ transaction_date.k # "ValueError"
                     /\ transaction_date.v >= cutoff_date(period, current)
         IN  IF period = "All Time" THEN all_transactions
             ELSE IF period \notin {"Today", "Last 7 days", "Last 30 days",
                                    "Last 12 months"} THEN all_transactions
             ELSE SelectSeq(all_transactions, Passes)

\* Analytics.calculate_totals: <<total_expenses, total_income>>
RECURSIVE calculate_totals(_)
calculate_totals(transactions) ==
    IF transactions = <<>> THEN <<Num(0), Num(0)>>
    ELSE LET n == Len(transactions)
             before == calculate_totals(SubSeq(transactions, 1, n - 1))
             transaction == transactions[n]
             amount == float(transaction.amount)
         IN  IF amount.k = "ValueError" THEN before
             ELSE IF transaction.flow = "Expense"
                  THEN <<FloatAdd(before[1], amount), before[2]>>
             ELSE IF transaction.flow = "Income"
                  THEN <<before[1], FloatAdd(before[2], amount)>>
             ELSE before

\* the number of groups the statistics keep
TopN == 5

\* the group totals taken over the transactions of both flows
RECURSIVE GroupTotals_any_flow(_, _, _)
GroupTotals_any_flow(transactions, flow_type, column) ==
    IF transactions = <<>> THEN [items |-> <<>>, total_amount |-> Num(0)]
    ELSE LET n == Len(transactions)
             before == GroupTotals_any_flow(SubSeq(transactions, 1, n - 1),
                                            flow_type, column)
             transaction == transactions[n]
             amount == float(transaction.amount)
             name == transaction[column]
             Named(item) == item.name = name
             i == FirstIndex(before.items, Named)
         IN  IF amount.k = "ValueError" THEN before
             ELSE [items |->
                      IF i = 0
                      THEN Append(before.items,
                                  [name |-> name, total |-> FloatAdd(Num(0), amount)])
                      ELSE [before.items EXCEPT ![i].total = FloatAdd(@, amount)],
                   total_amount |-> FloatAdd(before.total_amount, amount)]

\* the dict of group totals after the loop over the transactions, as the
\* sequence of its items in insertion order, and total_amount
RECURSIVE GroupTotals(_, _, _)
GroupTotals(transactions, flow_type, column) ==
    IF transactions = <<>> THEN [items |-> <<>>, total_amount |-> Num(0)]
    ELSE LET n == Len(transactions)
             before == GroupTotals(SubSeq(transactions, 1, n - 1), flow_type, column)
             transaction == transactions[n]
             amount == float(transaction.amount)
             name == transaction[column]
             Named(item) == item.name = name
             i == FirstIndex(before.items, Named)
         IN  IF transaction.flow # flow_type \/ amount.k = "ValueError" THEN before
             ELSE [items |->
                      IF i = 0
                      THEN Append(before.items,
                                  [name |-> name, total |-> FloatAdd(Num(0), amount)])
                      ELSE [before.items EXCEPT ![i].total = FloatAdd(@, amount)],
                   total_amount |-> FloatAdd(before.total_amount, amount)]

\* sorted(items, key=lambda x: x[1], reverse=True), as list.sort sorts a
\* list of fewer than 64 items with the comparison < of floats alone: the
\* list is reversed, its leading run is found (and reversed when it
\* descends), every later item is placed by binary insertion, and the result
\* is reversed.  On totals that are numbers this is the stable sort, largest
\* total first; a nan, for which every < is False, stays where the
\* comparisons leave it.
KeyLt(a, b) == FloatLt(a.total, b.total)

\* the length of the leading run of a, and whether it descends
count_run(a) ==
    IF Len(a) < 2 THEN [n |-> Len(a), descending |-> FALSE]
    ELSE IF KeyLt(a[2], a[1])
    THEN [n |-> CHOOSE n \in 2 .. Len(a) :
                    /\ \A i \in 2 .. n : KeyLt(a[i], a[i - 1])
                    /\ n = Len(a) \/ ~KeyLt(a[n + 1], a[n]),
          descending |-> TRUE]
    ELSE [n |-> CHOOSE n \in 2 .. Len(a) :
                    /\ \A i \in 2 .. n : ~KeyLt(a[i], a[i - 1])
                    /\ n = Len(a) \/ KeyLt(a[n + 1], a[n]),
          descending |-> FALSE]

\* where binary insertion puts pivot among the first r items of a, counting
\* from 0
RECURSIVE insertion_point(_, _, _, _)
insertion_point(a, pivot, l, r) ==
    IF l >= r THEN l
    ELSE LET p == l + ((r - l) \div 2)
         IN  IF KeyLt(pivot, a[p + 1]) THEN insertion_point(a, pivot, l, p)
             ELSE insertion_point(a, pivot, p + 1, r)

\* binarysort: the items from position start (from 0) on are inserted one by
\* one into the sorted items before them
RECURSIVE binarysort(_, _)
binarysort(a, start) ==
    IF start >= Len(a) THEN a
    ELSE LET pivot == a[start + 1]
             l == insertion_point(a, pivot, 0, start)
         IN  binarysort(SubSeq(a, 1, l) \o <<pivot>> \o SubSeq(a, l + 1, start)
                            \o SubSeq(a, start + 2, Len(a)),
                        start + 1)

sorted(items) ==
    LET a == Reverse(items)
        run == count_run(a)
        b == IF run.descending
             THEN Reverse(SubSeq(a, 1, run.n)) \o SubSeq(a, run.n + 1, Len(a))
             ELSE a
    IN  Reverse(binarysort(b, run.n))

\* a slice one element longer
FirstN_one_more(s, n) == SubSeq(s, 1, IF Len(s) < n + 1 THEN Len(s) ELSE n + 1)

FirstN(s, n) == SubSeq(s, 1, IF Len(s) < n THEN Len(s) ELSE n)

\* percentage as the plain fraction of the total
percentage_fraction(amount, total_amount) ==
    IF FloatGtZero(total_amount)
    THEN [n |-> amount.v, d |-> total_amount.v]
    ELSE [n |-> 0, d |-> 1]

\* percentage over a total_amount that is kept from one call of the
\* statistics to the next in place of starting at 0
percentage_carried(amount, total_amount) ==
    IF FloatGtZero(total_amount)
    THEN [n |-> 100 * amount.v,
          d |-> IF last.op = "calculate_stats"
                THEN total_amount.v * (last.calls + 1)
                ELSE total_amount.v]
    ELSE [n |-> 0, d |-> 1]

\* (amount / total_amount * 100) if total_amount > 0 else 0, as the
\* fraction n / d
percentage(amount, total_amount) ==
    IF FloatGtZero(total_amount)
    THEN [n |-> 100 * amount.v, d |-> total_amount.v]
    ELSE [n |-> 0, d |-> 1]

Stats(groups) ==
    LET sorted_items == FirstN(sorted(groups.items), TopN)
    IN  [i \in 1 .. Len(sorted_items) |->
            [name |-> sorted_items[i].name,
             total |-> sorted_items[i].total,
             percentage |-> percentage(sorted_items[i].total, groups.total_amount)]]

\* Analytics.calculate_label_stats
calculate_label_stats(transactions, flow_type) ==
    Stats(GroupTotals(transactions, flow_type, "label"))

\* Analytics.calculate_type_stats
calculate_type_stats(transactions, flow_type) ==
    Stats(GroupTotals(transactions, flow_type, "type"))

\* the values of a sequence of numbers
Min(S) == CHOOSE x \in S : \A y \in S : x <= y
Max(S) == CHOOSE x \in S : \A y \in S : x >= y

\* timedelta.days of a difference of datetimes
days(delta) == delta \div TicksPerDay

\* the datetimes of the rows whose date parses
Dates(rows) ==
    {strptime(rows[i].date).v : i \in {j \in 1 .. Len(rows) :
                                         strptime(rows[j].date).k # "ValueError"}}

\* theoretical_start of Analytics.get_days_in_period
theoretical_start(period, current) ==
    CASE period = "Last 7 days" -> current - 7 * TicksPerDay
      [] period = "Last 30 days" -> current - 30 * TicksPerDay
      [] period = "Last 12 months" -> current - 365 * TicksPerDay

\* get_days_in_period counting "All Time" from the earliest date up to now
get_days_in_period_up_to_now(file, period, transactions, current) ==
    IF period = "Today" THEN 1
    ELSE IF ~file.exists THEN 1
    ELSE LET all_transaction_dates == Dates(DataRows(file))
         IN  IF all_transaction_dates = {} THEN 1
             ELSE IF period \in {"Last 7 days", "Last 30 days", "Last 12 months"}
             THEN LET earliest_transaction_date == Min(all_transaction_dates)
                      actual_start_date ==
                          Max({theoretical_start(period, current),
                               earliest_transaction_date})
                  IN  Max({1, days(current - actual_start_date) + 1})
             ELSE IF period = "All Time"
             THEN LET dates == Dates(transactions)
                  IN  IF transactions # <<>> /\ dates # {}
                      THEN Max({1, days(current - Min(dates)) + 1})
                      ELSE 1
             ELSE 1

\* get_days_in_period taking the earliest date from the filtered transactions
get_days_in_period_of_filtered(file, period, transactions, current) ==
    IF period = "Today" THEN 1
    ELSE IF ~file.exists THEN 1
    ELSE LET all_transaction_dates == Dates(transactions)
         IN  IF all_transaction_dates = {} THEN 1
             ELSE IF period \in {"Last 7 days", "Last 30 days", "Last 12 months"}
             THEN LET earliest_transaction_date == Min(all_transaction_dates)
                      actual_start_date ==
                          Max({theoretical_start(period, current),
                               earliest_transaction_date})
                  IN  Max({1, days(current - actual_start_date) + 1})
             ELSE IF period = "All Time"
             THEN LET dates == Dates(transactions)
                  IN  IF transactions # <<>> /\ dates # {}
                      THEN Max({1, days(Max(dates) - Min(dates)) + 1})
                      ELSE 1
             ELSE 1

\* Analytics.get_days_in_period(period, transactions), datetime.now()
\* returning current; for a period other than "Today" the call raises when
\* StopIteration(file)
get_days_in_period(file, period, transactions, current) ==
    IF period = "Today" THEN 1
    ELSE IF ~file.exists THEN 1
    ELSE LET all_transaction_dates == Dates(DataRows(file))
         IN  IF all_transaction_dates = {} THEN 1
             ELSE IF period \in {"Last 7 days", "Last 30 days", "Last 12 months"}
             THEN LET earliest_transaction_date == Min(all_transaction_dates)
                      actual_start_date ==
                          Max({theoretical_start(period, current),
                               earliest_transaction_date})
                  IN  Max({1, days(current - actual_start_date) + 1})
             ELSE IF period = "All Time"
             THEN LET dates == Dates(transactions)
                  IN  IF transactions # <<>> /\ dates # {}
                      THEN Max({1, days(Max(dates) - Min(dates)) + 1})
                      ELSE 1
             ELSE 1

get_days_in_period_raises(file, period) == period # "Today" /\ StopIteration(file)

\* the other two readers of the transaction file skip the header in the same
\* way, inside a try that catches FileNotFoundError alone
get_filtered_transactions_raises(file) == StopIteration(file)
calculate_all_time_totals_raises(file) == StopIteration(file)

\* average over one day more
average_one_day_more(total, days_in_period) ==
    IF days_in_period > 0
    THEN [k |-> total.k, n |-> total.v, d |-> days_in_period + 1]
    ELSE [k |-> "num", n |-> 0, d |-> 1]

\* total / days_in_period if days_in_period > 0 else 0, as the fraction n / d
average(total, days_in_period) ==
    IF days_in_period > 0
    THEN [k |-> total.k, n |-> total.v, d |-> days_in_period]
    ELSE [k |-> "num", n |-> 0, d |-> 1]

FloatSub(a, b) == IF a.k = "nan" \/ b.k = "nan" THEN NaN ELSE Num(a.v - b.v)

\* Analytics.update_general_flow with period selected: the figures shown.
\* The call raises when StopIteration(file).
update_general_flow(file, period, current) ==
    LET transactions == get_filtered_transactions(file, period, current)
        totals == calculate_totals(transactions)
        total_expenses == totals[1]
        total_income == totals[2]
        total_balance == FloatSub(total_income, total_expenses)
        days_in_period == get_days_in_period(file, period, transactions, current)
    IN  [total_expenses |-> total_expenses,
         total_income |-> total_income,
         total_balance |-> total_balance,
         days_in_period |-> days_in_period,
         avg_expenses |-> average(total_expenses, days_in_period),
         avg_income |-> average(total_income, days_in_period),
         avg_balance |-> average(total_balance, days_in_period)]

\* a variant of calculate_all_time_totals: the totals of the last 7 days at
\* the reading of the clock eight days after day 0
calculate_all_time_totals_last_7_days(file) ==
    calculate_totals(get_filtered_transactions(file, "Last 7 days", (7 + 1) * TicksPerDay))

\* Dashboard.calculate_all_time_totals: <<total_expenses, total_income>>.
\* The call raises when StopIteration(file).
calculate_all_time_totals(file) ==
    IF ~file.exists THEN <<Num(0), Num(0)>> ELSE calculate_totals(DataRows(file))

\* Dashboard.update_balance: current_balance
update_balance(file) ==
    LET totals == calculate_all_time_totals(file)
    IN  FloatSub(totals[2], totals[1])

\* ------------------------------------------------- the log under the clock
\* one label in each flow's catalog; transactions are added at any reading
\* of the wall clock, with any text typed as the amount, and deleted
InitLog ==
    /\ tx_file = File(<<HeaderRow>>)
    /\ labels = [f \in Flows |-> <<LabelRow("T1", "L1", 0)>>]
    /\ types = [f \in Flows |-> IF f = "Expense" THEN <<TypeRow("T1", 0)>> ELSE <<>>]
    /\ cwd_types = [f \in Flows |-> NoFile]
    /\ last = Ran("init", "", NoRow, None, EmptyText, FALSE)

NextLog ==
    \/ AddTransaction(AmountTexts, Times, MaxLogTx)
    \/ DeleteTransaction(MaxLogTx)

SpecLog == InitLog /\ [][NextLog]_vars

\* ------------------------------------------- the statistics over their inputs
MaxStatTx == 7      \* SpecStats: transactions in the log
\* amounts as add_transaction writes them: the dialog lets positive numbers
\* and nan through
StatAmounts == {NumText(1), NumText(2), NanText}

StatLabels == <<"L1", "L2", "L3", "L4", "L5", "L6", "L7", "L8", "L9">>
StatTypes == <<"T1", "T1", "T3", "T4", "T5", "T6", "T7", "T8", "T9">>

\* the labels of the log in order of first appearance are L1, L2, ...: the
\* number of them
RECURSIVE LabelsUsed(_)
LabelsUsed(rows) ==
    IF rows = <<>> THEN 0
    ELSE LET n == Len(rows)
             before == LabelsUsed(SubSeq(rows, 1, n - 1))
         IN  IF rows[n].flow = "Expense" /\ rows[n].label = StatLabels[before + 1]
             THEN before + 1 ELSE before

InitStats ==
    /\ tx_file = File(<<HeaderRow>>)
    /\ labels = [f \in Flows |-> <<>>]
    /\ types = [f \in Flows |-> <<>>]
    /\ cwd_types = [f \in Flows |-> NoFile]
    /\ last = Ran("init", "", NoRow, None, EmptyText, FALSE)

\* the log grows by a transaction as add_transaction writes it: an Expense
\* under the next new label with any of the amounts, an Expense of 1 under
\* the label used last, or an Income of 1 (labels L1 and L2 are of type T1,
\* every other label has a type of its own)
StatsFeed ==
    /\ Len(tx_file.lines) <= MaxStatTx
    /\ \E row \in
           {Row("Income", "L1", NumText(1), "T1", strftime(0))} \cup
           {Row("Expense", StatLabels[i], NumText(1), StatTypes[i], strftime(0)) :
               i \in {j \in {LabelsUsed(DataRows(tx_file))} : j >= 1}} \cup
           {Row("Expense", StatLabels[LabelsUsed(DataRows(tx_file)) + 1], a,
                StatTypes[LabelsUsed(DataRows(tx_file)) + 1], strftime(0)) :
               a \in StatAmounts} :
           tx_file' = File(tx_file.lines \o <<row>>)
    /\ UNCHANGED <<labels, types, cwd_types, last>>

NextStats == StatsFeed

SpecStats == InitStats /\ [][NextStats]_vars

\* ------------------------------------------------ the log across the windows
MaxWinTx == 2       \* SpecWindow: lines the transaction file may hold after its first

\* days the clock reads: they put a transaction one day inside, on the edge
\* of and one day outside each of the windows of 7, 30 and 365 days
WindowDays == {0, 1, 2, 7 + 1, 30 + 1, 365 + 1}
WindowTimes == {d * TicksPerDay + t : d \in WindowDays, t \in 0 .. (TicksPerDay - 1)}

NextWindow ==
    \/ AddTransaction(PlainTexts, WindowTimes, MaxWinTx)
    \/ DeleteTransaction(MaxWinTx)

SpecWindow == InitLog /\ [][NextWindow]_vars

\* ------------------------------------------------- the file as found on disk
MaxFileTx == 2      \* SpecFile: lines the transaction file may hold after its first

\* a line of the file that the program did not have to write: any flow,
\* amount text and date text under one label, a line of a second label, or
\* too few columns
FileRows ==
    {ShortRow} \cup
    {Row(f, "L1", a, "T1", d) :
        f \in Flows,
        a \in {NumText(1), NumText(-1), NanText, WordText},
        d \in {DateText(0), DateText(7 + 1), WordText}} \cup
    {Row(f, "L2", NumText(1), "T2", DateText(0)) : f \in Flows}

\* the transaction file is missing, holds no line, or holds its header line
InitFile ==
    /\ tx_file \in {NoFile, File(<<>>), File(<<HeaderRow>>)}
    /\ labels = [f \in Flows |-> <<>>]
    /\ types = [f \in Flows |-> <<>>]
    /\ cwd_types = [f \in Flows |-> NoFile]
    /\ last = Ran("init", "", NoRow, None, EmptyText, FALSE)

\* one more line after the header
FileLine ==
    /\ tx_file.exists
    /\ Len(tx_file.lines) \in 1 .. MaxFileTx
    /\ \E row \in FileRows : tx_file' = File(Append(tx_file.lines, row))
    /\ UNCHANGED <<labels, types, cwd_types, last>>

NextFile == FileLine

SpecFile == InitFile /\ [][NextFile]_vars

\* ------------------------------------------------------------ the first run
MaxEditTx == 3      \* SpecFirstRun, SpecEdit: lines the transaction file may hold after its first

\* the transaction file is there or not yet there: no handler of the program
\* creates it before the first add_transaction.  The catalogs are as the
\* Labels & Types page leaves them, their counters 0: the Expense labels
\* hold one name under two types, the Income label has no row for its type
InitFirstRun ==
    /\ tx_file \in {NoFile, File(<<HeaderRow>>)}
    /\ labels = [f \in Flows |->
                    IF f = "Expense"
                    THEN <<LabelRow("T1", "L1", 0), LabelRow("T2", "L1", 0),
                           LabelRow("T1", "L2", 0)>>
                    ELSE <<LabelRow("T1", "L1", 0)>>]
    /\ types = [f \in Flows |->
                   IF f = "Expense" THEN <<TypeRow("T1", 0), TypeRow("T2", 0)>> ELSE <<>>]
    /\ cwd_types = [f \in Flows |-> NoFile]
    /\ last = Ran("init", "", NoRow, None, EmptyText, FALSE)

\* two days, so that the transactions of a flow differ
EditTimes == {0, TicksPerDay}

NextFirstRun ==
    \/ AddTransaction(PlainTexts, EditTimes, MaxEditTx)
    \/ DeleteTransaction(MaxEditTx)

SpecFirstRun == InitFirstRun /\ [][NextFirstRun]_vars

\* ----------------------------------------------------- the log being edited

NextEdit ==
    \/ AddTransaction(PlainTexts, EditTimes, MaxEditTx)
    \/ DeleteStale(MaxEditTx)

SpecEdit == InitFirstRun /\ [][NextEdit]_vars

\* ------------------------------------------------- the statistics called
MaxCalls == 2       \* SpecCalls: calls of one of the statistics in a row

\* lines of the file the statistics are taken over
CallRows ==
    {ShortRow} \cup
    {Row(f, "L1", a, "T1", DateText(0)) :
        f \in Flows, a \in {NumText(1), NanText, WordText}} \cup
    {Row(f, "L2", NumText(1), "T2", DateText(0)) : f \in Flows}

\* any file of the header and up to MaxFileTx of these lines
InitCalls ==
    /\ tx_file \in {File(<<HeaderRow>> \o rows) :
                        rows \in UNION {[1 .. n -> CallRows] : n \in 0 .. MaxFileTx}}
    /\ labels = [f \in Flows |-> <<>>]
    /\ types = [f \in Flows |-> <<>>]
    /\ cwd_types = [f \in Flows |-> NoFile]
    /\ last = Ran("init", "", NoRow, None, EmptyText, FALSE)

\* Analytics.calculate_label_stats(transactions, flow_type) or
\* calculate_type_stats(transactions, flow_type), called as
\* update_labels_types calls them on the transactions of All Time: the
\* totals are kept in locals, nothing is written, the list passed is not
\* assigned to.  input is the list before the call, transactions the list
\* after it, calls counts the calls in a row on the same arguments.
CalculateStats ==
    \E column \in {"label", "type"} : \E flow_type \in Flows :
        LET transactions == get_filtered_transactions(tx_file, "All Time", 0)
            same == /\ last.op = "calculate_stats"
                    /\ last.column = column
                    /\ last.flow = flow_type
                    /\ last.transactions = transactions
            calls == IF same THEN last.calls + 1 ELSE 1
        IN  /\ calls <= MaxCalls
            /\ last' = [op |-> "calculate_stats",
                        column |-> column,
                        flow |-> flow_type,
                        input |-> transactions,
                        transactions |-> transactions,
                        result |-> IF column = "label"
                                   THEN calculate_label_stats(transactions, flow_type)
                                   ELSE calculate_type_stats(transactions, flow_type),
                        calls |-> calls]
            /\ UNCHANGED <<tx_file, labels, types, cwd_types>>

NextCalls == CalculateStats

SpecCalls == InitCalls /\ [][NextCalls]_vars

\* ================================================================ properties
\* helpers of the properties: what the log holds, told without the code's
\* aggregation
RECURSIVE AmountSum(_)
AmountSum(rows) ==
    IF rows = <<>> THEN Num(0)
    ELSE FloatAdd(float(Head(rows).amount), AmountSum(Tail(rows)))

FloatLeq(a, b) == a.k = "num" /\ b.k = "num" /\ a.v <= b.v

OfFlow(rows, F) == LET Test(t) == t.flow = F IN SelectSeq(rows, Test)
InGroup(rows, F, column, name) ==
    LET Test(t) == t.flow = F /\ t[column] = name IN SelectSeq(rows, Test)
GroupNames(rows, F, column) == {rows[i][column] : i \in {j \in 1 .. Len(rows) : rows[j].flow = F}}

RECURSIVE TotalSum(_)
TotalSum(stats) ==
    IF stats = <<>> THEN Num(0) ELSE FloatAdd(Head(stats).total, TotalSum(Tail(stats)))

\* fractions n / d with d > 0
RECURSIVE PercentageSum(_)
PercentageSum(stats) ==
    IF stats = <<>> THEN [n |-> 0, d |-> 1]
    ELSE LET p == Head(stats).percentage
             q == PercentageSum(Tail(stats))
         IN  [n |-> p.n * q.d + q.n * p.d, d |-> p.d * q.d]

TotalOf(totals, F) == IF F = "Expense" THEN totals[1] ELSE totals[2]

WholeLog == get_filtered_transactions(tx_file, "All Time", 0)

\* C1: for each flow F, the totals that calculate_label_stats returns sum to
\* at most the total calculate_totals computes for F, and the two are equal
\* only when the transactions of F carry at most 5 distinct labels.
C1_LabelStatsWithinTotal ==
    \A F \in Flows :
        LET T == WholeLog
            listed == TotalSum(calculate_label_stats(T, F))
            total == TotalOf(calculate_totals(T), F)
        IN  /\ FloatLeq(listed, total)
            /\ listed = total => Cardinality(GroupNames(T, F, "label")) <= 5

\* every amount of the log is a number
NumericLog == \A i \in 1 .. Len(WholeLog) : float(WholeLog[i].amount).k = "num"

\* C1 over the logs whose amounts are all numbers
C1_OnNumericLogs == NumericLog => C1_LabelStatsWithinTotal

\* six labels in an Expense log of numbers: the statistics leave one out
C1_SixLabels ==
    /\ NumericLog
    /\ Cardinality(GroupNames(WholeLog, "Expense", "label")) = 6
    /\ TotalSum(calculate_label_stats(WholeLog, "Expense")).v
           < TotalOf(calculate_totals(WholeLog), "Expense").v

PercentagesOf(stats, T, F, column) ==
    LET total_amount == AmountSum(OfFlow(T, F))
        sum == PercentageSum(stats)
    IN  /\ \A i \in 1 .. Len(stats) :
               LET p == stats[i].percentage
                   group_total == AmountSum(InGroup(T, F, column, stats[i].name))
               IN  /\ IF FloatGtZero(total_amount)
                      THEN p.n * total_amount.v = 100 * group_total.v * p.d
                      ELSE p.n = 0
                   /\ 0 <= p.n /\ p.n <= 100 * p.d
        /\ sum.n <= 100 * sum.d

LabelEntry(rows, t, i) ==
    /\ rows[i].type = t.type /\ rows[i].label = t.label
    /\ \A j \in 1 .. (i - 1) : ~(rows[j].type = t.type /\ rows[j].label = t.label)
TypeEntry(rows, t, i) ==
    /\ rows[i].name = t.type
    /\ \A j \in 1 .. (i - 1) : rows[j].name # t.type

\* every counter of the four catalogs after a step, Bump applied to the
\* counter of the entries of transaction t in the catalogs of flow f
CountersMove(f, t, Bump(_)) ==
    \A g \in Flows :
        /\ Len(labels'[g]) = Len(labels[g])
        /\ Len(types'[g]) = Len(types[g])
        /\ \A i \in 1 .. Len(labels[g]) :
               labels'[g][i] =
                   IF g = f /\ LabelEntry(labels[g], t, i)
                   THEN [labels[g][i] EXCEPT !.count = Bump(@)]
                   ELSE labels[g][i]
        /\ \A i \in 1 .. Len(types[g]) :
               types'[g][i] =
                   IF g = f /\ TypeEntry(types[g], t, i)
                   THEN [types[g][i] EXCEPT !.count = Bump(@)]
                   ELSE types[g][i]

\* C3: delete_transaction removes the transaction and lowers by exactly 1,
\* not below 0, the counter of the one label entry that matches its (type,
\* label) and of the one type entry that matches its type, in the catalogs
\* of its flow; every other counter of the four catalogs keeps its value.
C3_DeleteDecrements ==
    [][(last'.op = "delete_transaction" /\ last'.done) =>
          LET Lower(n) == IF n > 0 THEN n - 1 ELSE 0
          IN  /\ Len(tx_file'.lines) = Len(tx_file.lines) - 1
              /\ CountersMove(last'.flow, last'.row, Lower)]_vars

\* a transaction was deleted whose label entry and type entry both exist
C3_Witness ==
    /\ last.op = "delete_transaction" /\ last.done
    /\ \E i \in 1 .. Len(labels[last.flow]) : LabelEntry(labels[last.flow], last.row, i)
    /\ \E i \in 1 .. Len(types[last.flow]) : TypeEntry(types[last.flow], last.row, i)

\* C4: an add_transaction that appends a transaction raises by exactly 1 the
\* counter of the label entry the transaction references and the counter of
\* that entry's type in the type catalog of the same flow; no other counter
\* of the four catalogs changes.
C4_AddIncrements ==
    [][(last'.op = "add_transaction" /\ last'.done) =>
          LET Raise(n) == n + 1
          IN  /\ tx_file'.lines = Append(tx_file.lines, last'.row)
              /\ \E i \in 1 .. Len(labels[last'.flow]) :
                     LabelEntry(labels[last'.flow], last'.row, i)
              /\ CountersMove(last'.flow, last'.row, Raise)]_vars

\* a transaction was added whose label entry and type entry both count it
C4_Witness ==
    /\ last.op = "add_transaction" /\ last.done
    /\ \E i \in 1 .. Len(labels[last.flow]) :
           LabelEntry(labels[last.flow], last.row, i) /\ labels[last.flow][i].count = 1
    /\ \E i \in 1 .. Len(types[last.flow]) :
           TypeEntry(types[last.flow], last.row, i) /\ types[last.flow][i].count = 1

\* C5: the type stored in an appended transaction is the type of the label
\* entry the user selected in the dialog, whatever the catalog holds, the
\* same label name under two types included.
C5_StoredTypeOfSelection ==
    [][(last'.op = "add_transaction" /\ last'.done) =>
          LET selected == labels[last'.flow][last'.sel + 1]
          IN  /\ last'.row.label = selected.label
              /\ last'.row.type = selected.type]_vars

\* C6: the (flow, label, type) of an appended transaction is an entry of the
\* label catalog of that flow; with an empty catalog add_transaction creates
\* no transaction and leaves the log and the counters as they were.
C6_AddFromCatalog ==
    [][last'.op = "add_transaction" =>
          LET rows == labels[last'.flow]
          IN  /\ last'.done =>
                     /\ last'.row.flow = last'.flow
                     /\ \E i \in 1 .. Len(rows) :
                            rows[i].label = last'.row.label /\ rows[i].type = last'.row.type
                     /\ tx_file'.lines = Append(tx_file.lines, last'.row)
              /\ ~last'.done => UNCHANGED <<tx_file, labels, types>>
              /\ rows = <<>> => ~last'.done]_vars

\* a transaction was added from a catalog of two entries of different types
C6_Witness ==
    /\ last.op = "add_transaction" /\ last.done
    /\ Len(labels[last.flow]) = 2
    /\ labels[last.flow][1].type # labels[last.flow][2].type
    /\ last.row.type = labels[last.flow][2].type

\* C7: every appended transaction has an amount > 0, and an empty,
\* non-numeric, zero or negative amount text creates no transaction and
\* leaves the log and the counters as they were.
C7_AmountPositive ==
    [][last'.op = "add_transaction" =>
          /\ last'.done => FloatGtZero(float(last'.row.amount))
          /\ ~(last'.text.k = "num" /\ last'.text.v > 0) =>
                 ~last'.done /\ UNCHANGED <<tx_file, labels, types>>]_vars

\* C8: delete_item leaves the transaction log as it was: the transactions
\* that reference the deleted label or type stay, and calculate_totals and
\* the label and type statistics still count them.
C8_DeleteItemKeepsLog ==
    [][last'.op \in {"delete_item_label", "delete_item_type"} =>
          /\ tx_file' = tx_file
          /\ \A F \in Flows :
                 LET before == OfFlow(DataRows(tx_file), F)
                     T == get_filtered_transactions(tx_file', "All Time", 0)
                 IN  /\ TotalOf(calculate_totals(T), F) = AmountSum(before)
                     /\ TotalSum(calculate_type_stats(T, F)) = AmountSum(before)
                     /\ TotalSum(calculate_label_stats(T, F)) = AmountSum(before)]_vars

\* a label was deleted and a transaction of the log still carries it
C8_Witness ==
    /\ last.op = "delete_item_label"
    /\ \E i \in 1 .. Len(DataRows(tx_file)) :
           /\ DataRows(tx_file)[i].flow = last.flow
           /\ DataRows(tx_file)[i].label = last.row.label
    /\ \A i \in 1 .. Len(labels[last.flow]) : labels[last.flow][i].label # last.row.label
    /\ FloatGtZero(TotalOf(calculate_totals(WholeLog), last.flow))

\* C9: with the period "All Time" get_filtered_transactions returns the
\* whole log: every record, unchanged, in the order of the file, whatever
\* the log holds and whatever the clock reads.
C9_AllTimeWholeLog ==
    \A current \in Times :
        get_filtered_transactions(tx_file, "All Time", current) = Tail(tx_file.lines)

\* two transactions of different dates, which "Today" tells apart
C9_Witness ==
    /\ Len(tx_file.lines) = 3
    /\ tx_file.lines[2].date # tx_file.lines[3].date
    /\ \E current \in Times :
           Len(get_filtered_transactions(tx_file, "Today", current)) = 1

\* C10 as stated: with the period "Today" get_filtered_transactions returns
\* only transactions whose date is the calendar date of now, whatever the
\* log holds, dates later than now's included.
C10_Original ==
    \A current \in Times :
        LET T == get_filtered_transactions(tx_file, "Today", current)
        IN  \A i \in 1 .. Len(T) : T[i].date = strftime(current)

\* C10 amended: with the period "Today" get_filtered_transactions returns,
\* in file order, exactly the transactions dated on or after the calendar
\* date of now; they are the transactions of now's date alone when the log
\* holds no later date.
C10_TodayOnOrAfter ==
    \A current \in Times :
        LET T == get_filtered_transactions(tx_file, "Today", current)
            today == current \div TicksPerDay
            OnOrAfter(t) == t.date.k = "date" /\ t.date.v >= today
            all == Tail(tx_file.lines)
        IN  /\ T = SelectSeq(all, OnOrAfter)
            /\ (\A i \in 1 .. Len(all) : all[i].date.k = "date" => all[i].date.v <= today)
                   => \A i \in 1 .. Len(T) : T[i].date = strftime(current)

\* the log holds a date before and a date after now's: "Today" returns the
\* later one and leaves out the earlier one
C10_Witness ==
    \E current \in Times :
        LET T == get_filtered_transactions(tx_file, "Today", current)
            today == current \div TicksPerDay
        IN  /\ current % TicksPerDay # 0
            /\ \E i \in 1 .. Len(T) : T[i].date.v > today
            /\ \E i \in 2 .. Len(tx_file.lines) : tx_file.lines[i].date.v < today

\* what Analytics computes for a period at a reading of the clock
Filtered(period, current) == get_filtered_transactions(tx_file, period, current)
DayCount(period, current) ==
    get_days_in_period(tx_file, period, Filtered(period, current), current)

\* C11: get_days_in_period returns an integer >= 1 for every period
\* selector, every content of the log (empty, missing, unparseable dates,
\* dates later than now) and every current time.
C11_DayCountAtLeastOne ==
    \A period \in Periods : \A current \in WindowTimes :
        /\ ~get_days_in_period_raises(tx_file, period)
        /\ DayCount(period, current) \in Nat \ {0}

\* C11 over the files that hold at least one line
C11_OnFilesWithALine == ~StopIteration(tx_file) => C11_DayCountAtLeastOne

\* a log read before its only parseable date, another line unparseable
C11_DatesAhead ==
    /\ Len(DataRows(tx_file)) = 2
    /\ Dates(DataRows(tx_file)) = {(7 + 1) * TicksPerDay}
    /\ DayCount("Last 7 days", 0) = 1

\* the length in days of the window of a period
WindowLength(period) ==
    CASE period = "Last 7 days" -> 7
      [] period = "Last 30 days" -> 30
      [] period = "Last 12 months" -> 365

Windows == {"Last 7 days", "Last 30 days", "Last 12 months"}

\* the instant a date text stands for: the midnight of its day
Midnight(date) == date.v * TicksPerDay

\* C12: for Last 7 days, Last 30 days and Last 12 months
\* get_filtered_transactions returns, in log order, exactly the transactions
\* dated on or after the cutoff now - N days, N = 7, 30, 365; a transaction
\* dated exactly at the cutoff is included.
C12_WindowFilter ==
    \A period \in Windows : \A current \in WindowTimes :
        LET cutoff == current - WindowLength(period) * TicksPerDay
            OnOrAfter(t) == Midnight(t.date) >= cutoff
        IN  Filtered(period, current) = SelectSeq(Tail(tx_file.lines), OnOrAfter)

\* at some midnight a window keeps the transaction dated at its cutoff and
\* drops the one dated the day before
C12_Witness ==
    \E period \in Windows : \E current \in WindowTimes :
        LET cutoff == current - WindowLength(period) * TicksPerDay
            T == Filtered(period, current)
        IN  /\ Len(tx_file.lines) = 3
            /\ Len(T) = 1
            /\ Midnight(T[1].date) = cutoff
            /\ \E i \in 2 .. 3 : Midnight(tx_file.lines[i].date) = cutoff - TicksPerDay

\* whole days in a span of ticks, rounded down
WholeDays(span) == CHOOSE n \in (-400) .. 400 :
                       n * TicksPerDay <= span /\ span < (n + 1) * TicksPerDay

\* the earliest date of the whole log
Earliest == Min({Midnight(tx_file.lines[i].date) : i \in 2 .. Len(tx_file.lines)})

\* C13: for Last 7 days, Last 30 days and Last 12 months with a non-empty
\* log, get_days_in_period returns max(1, (now - actual_start).days + 1)
\* with actual_start = max(now - N days, earliest transaction date), the
\* earliest date being that of the whole log, not of the filtered subset.
C13_WindowDayCount ==
    \A period \in Windows : \A current \in WindowTimes :
        Len(tx_file.lines) > 1 =>
            LET theoretical == current - WindowLength(period) * TicksPerDay
                actual_start == IF theoretical >= Earliest THEN theoretical ELSE Earliest
                n == WholeDays(current - actual_start) + 1
            IN  DayCount(period, current) = IF n >= 1 THEN n ELSE 1

\* the log starts before a window and the filtered transactions start after
\* the cutoff: the days are counted from the cutoff
C13_Witness ==
    \E period \in Windows : \E current \in WindowTimes :
        LET theoretical == current - WindowLength(period) * TicksPerDay
            T == Filtered(period, current)
        IN  /\ Len(tx_file.lines) = 3
            /\ Earliest < theoretical
            /\ Len(T) = 1
            /\ Midnight(T[1].date) > theoretical
            /\ DayCount(period, current) = WindowLength(period) + 1

\* the dates that parse among the transactions "All Time" returns
AllTimeDates ==
    LET T == Filtered("All Time", 0)
    IN  {Midnight(T[i].date) : i \in {j \in 1 .. Len(T) : T[j].date.k = "date"}}

\* C14: for All Time get_days_in_period returns
\* max(1, (latest date - earliest date).days + 1) over the dates of the
\* filtered transactions when there are any, and 1 otherwise; the result
\* does not depend on now.  (Stated for a file that is missing or holds at
\* least one line: on a file without lines the call raises, see C11.)
C14_AllTimeDayCount ==
    ~StopIteration(tx_file) =>
        \A current \in WindowTimes :
            LET D == AllTimeDates
                n == WholeDays(Max(D) - Min(D)) + 1
            IN  /\ DayCount("All Time", current) =
                       IF D = {} THEN 1 ELSE IF n >= 1 THEN n ELSE 1
                /\ DayCount("All Time", current) = DayCount("All Time", 0)

\* two dates 8 days apart in the log, whatever the clock reads
C14_Witness ==
    /\ Cardinality(AllTimeDates) = 2
    /\ \A current \in WindowTimes : DayCount("All Time", current) = 7 + 2

\* the figures of the general flow section are the totals of rows, each
\* average being the total itself
FlowOverRows(g, rows) ==
    LET expenses == AmountSum(OfFlow(rows, "Expense"))
        income == AmountSum(OfFlow(rows, "Income"))
        Same(avg, total) == avg.k = total.k /\ avg.n = total.v /\ avg.d = 1
    IN  /\ g.days_in_period = 1
        /\ g.total_expenses = expenses
        /\ g.total_income = income
        /\ g.total_balance = FloatSub(income, expenses)
        /\ Same(g.avg_expenses, g.total_expenses)
        /\ Same(g.avg_income, g.total_income)
        /\ Same(g.avg_balance, g.total_balance)

\* the example of C15: an Expense of 100 and an Income of 150 dated day 1
ExampleFile ==
    File(<<HeaderRow,
           Row("Expense", "L1", NumText(100), "T1", DateText(1)),
           Row("Income", "L1", NumText(150), "T1", DateText(1))>>)

\* C15 as stated: with Today the day count is 1, the period totals are those
\* of the transactions dated today only, and each daily average equals the
\* period total.
C15_Original ==
    \A current \in Times :
        LET Today(t) == t.date = strftime(current)
        IN  FlowOverRows(update_general_flow(tx_file, "Today", current),
                         SelectSeq(Tail(tx_file.lines), Today))

\* C15 amended: with Today the day count is 1, the period totals are those
\* of the transactions dated today or later (today's only when the log holds
\* no later date), and each daily average equals the period total; an
\* Expense of 100 and an Income of 150 dated today give totals (100, 150),
\* balance 50 and averages 100 and 150.
C15_TodayFlow ==
    \A current \in Times :
        LET today == current \div TicksPerDay
            FromToday(t) == t.date.v >= today
            g == update_general_flow(ExampleFile, "Today", current)
        IN  /\ FlowOverRows(update_general_flow(tx_file, "Today", current),
                            SelectSeq(Tail(tx_file.lines), FromToday))
            /\ today = 1 =>
                   /\ g.total_expenses = Num(100) /\ g.total_income = Num(150)
                   /\ g.total_balance = Num(50) /\ g.days_in_period = 1
                   /\ g.avg_expenses = [k |-> "num", n |-> 100, d |-> 1]
                   /\ g.avg_income = [k |-> "num", n |-> 150, d |-> 1]
                   /\ g.avg_balance = [k |-> "num", n |-> 50, d |-> 1]

\* an Expense and an Income in the log, one dated before today and left out
\* of the totals, the other dated today
C15_Witness ==
    \E current \in Times :
        LET g == update_general_flow(tx_file, "Today", current)
        IN  /\ Len(tx_file.lines) = 3
            /\ tx_file.lines[2].flow # tx_file.lines[3].flow
            /\ tx_file.lines[2].date.v < current \div TicksPerDay
            /\ tx_file.lines[3].date = strftime(current)
            /\ \/ g.total_expenses = Num(1) /\ g.total_income = Num(0)
               \/ g.total_expenses = Num(0) /\ g.total_income = Num(1)

\* every figure of Analytics and of the Dashboard is that of no data
NoData ==
    \A period \in Periods : \A current \in WindowTimes :
        LET g == update_general_flow(tx_file, period, current)
            T == Filtered(period, current)
        IN  /\ T = <<>>
            /\ g.total_expenses = Num(0) /\ g.total_income = Num(0)
            /\ g.total_balance = Num(0) /\ g.days_in_period = 1
            /\ calculate_all_time_totals(tx_file) = <<Num(0), Num(0)>>
            /\ update_balance(tx_file) = Num(0)
            /\ \A F \in Flows : /\ calculate_label_stats(T, F) = <<>>
                                /\ calculate_type_stats(T, F) = <<>>

\* C16: for a log without transaction records or a log store that does not
\* exist, the totals are (0, 0), the balance is 0, the filtered sequence is
\* empty, the day count is 1 for every period, the label and type statistics
\* are empty, and no error is raised.
C16_EmptyLog ==
    (~tx_file.exists \/ Len(tx_file.lines) <= 1) =>
        /\ ~StopIteration(tx_file)
        /\ NoData

\* C16 over the missing file and the file that holds its header line
C16_OnHeaderOrMissing ==
    (~tx_file.exists \/ Len(tx_file.lines) = 1) => NoData

\* the label and the type statistics of a flow over transactions T
StatsOf(T, F, column) ==
    IF column = "label" THEN calculate_label_stats(T, F) ELSE calculate_type_stats(T, F)

\* the transactions whose amount float() reads
Parsed(rows) == LET Test(t) == float(t.amount).k # "ValueError" IN SelectSeq(rows, Test)

\* C17: in the result of calculate_label_stats (calculate_type_stats) every
\* group name appears at most once and its total is the sum of the amounts
\* of all transactions of the requested flow that carry that label (type);
\* the transactions of the other flow contribute to no group.
C17_GroupTotals ==
    \A F \in Flows : \A column \in {"label", "type"} :
        LET T == WholeLog
            stats == StatsOf(T, F, column)
        IN  /\ \A i, j \in 1 .. Len(stats) : stats[i].name = stats[j].name => i = j
            /\ \A i \in 1 .. Len(stats) :
                   /\ stats[i].name \in GroupNames(Parsed(T), F, column)
                   /\ stats[i].total =
                          AmountSum(Parsed(InGroup(T, F, column, stats[i].name)))

\* label L1 carries two Expenses and an Income: the Expense group of L1 is
\* the sum of the two
C17_Witness ==
    /\ NumericLog
    /\ Len(InGroup(WholeLog, "Expense", "label", "L1")) = 2
    /\ Len(InGroup(WholeLog, "Income", "label", "L1")) = 1
    /\ \E i \in 1 .. Len(calculate_label_stats(WholeLog, "Expense")) :
           /\ calculate_label_stats(WholeLog, "Expense")[i].name = "L1"
           /\ calculate_label_stats(WholeLog, "Expense")[i].total = Num(3)

\* the position in T of the first transaction of flow F in group name
FirstOccurrence(T, F, column, name) ==
    Min({i \in 1 .. Len(T) : T[i].flow = F /\ T[i][column] = name})

\* C18: the result of the aggregation has at most 5 entries, is ordered by
\* total in non-increasing order, holds no group whose total is smaller than
\* that of a group left out, and orders groups of equal totals by the
\* position of their first occurrence in the input.
C18_Ranking ==
    \A F \in Flows : \A column \in {"label", "type"} :
        LET T == WholeLog
            stats == StatsOf(T, F, column)
            listed == {stats[i].name : i \in 1 .. Len(stats)}
            left_out == GroupNames(Parsed(T), F, column) \ listed
        IN  /\ Len(stats) <= 5
            /\ \A i \in 1 .. (Len(stats) - 1) :
                   /\ FloatLeq(stats[i + 1].total, stats[i].total)
                   /\ stats[i + 1].total = stats[i].total =>
                          FirstOccurrence(T, F, column, stats[i].name)
                              < FirstOccurrence(T, F, column, stats[i + 1].name)
            /\ \A i \in 1 .. Len(stats) : \A name \in left_out :
                   FloatLeq(AmountSum(Parsed(InGroup(T, F, column, name))),
                            stats[i].total)

\* C18 over the logs whose amounts are all numbers
C18_OnNumericLogs == NumericLog => C18_Ranking

\* seven labels in an Expense log of numbers, two of them left out, the
\* listed ones not in the order of the log
C18_SevenLabels ==
    /\ NumericLog
    /\ Cardinality(GroupNames(WholeLog, "Expense", "label")) = 7
    /\ calculate_label_stats(WholeLog, "Expense")[1].name = "L7"
    /\ calculate_label_stats(WholeLog, "Expense")[5].total = Num(1)

\* the transactions whose amount is a number that is not negative
Acceptable(rows) ==
    LET Test(t) == float(t.amount).k = "num" /\ float(t.amount).v >= 0
    IN  SelectSeq(rows, Test)

\* C19: while grouping, the aggregation skips every transaction whose amount
\* is negative or is no number: the group totals and total_amount are those
\* of the log without these transactions.
C19_SkipsBadAmounts ==
    \A F \in Flows : \A column \in {"label", "type"} :
        GroupTotals(WholeLog, F, column) = GroupTotals(Acceptable(WholeLog), F, column)

\* C19 for the amounts float() rejects alone
C19_SkipsUnparsedAmounts ==
    \A F \in Flows : \A column \in {"label", "type"} :
        GroupTotals(WholeLog, F, column) = GroupTotals(Parsed(WholeLog), F, column)

\* a log whose only Expense amount is negative, and the group it makes
C19_NegativeCounted ==
    /\ \E i \in 1 .. Len(WholeLog) :
           WholeLog[i].flow = "Expense" /\ WholeLog[i].amount = NumText(-1)
    /\ \E i \in 1 .. Len(WholeLog) :
           WholeLog[i].flow = "Expense" /\ WholeLog[i].amount = WordText
    /\ calculate_label_stats(WholeLog, "Expense")
           = <<[name |-> "L1", total |-> Num(-1), percentage |-> [n |-> 0, d |-> 1]]>>

\* the lines after the header that have five columns and an amount float()
\* reads
Records(file) ==
    LET Test(t) == Wide(t) /\ float(t.amount).k # "ValueError"
    IN  IF file.exists /\ file.lines # <<>> THEN SelectSeq(Tail(file.lines), Test) ELSE <<>>

\* C20: the balance of the Dashboard is the sum of the amounts of all Income
\* records minus the sum of the amounts of all Expense records of the whole
\* log, the lines with too few columns or an amount that is no number left
\* out; no period of the Analytics selector enters it.
C20_DashboardBalance ==
    ~StopIteration(tx_file) =>
        update_balance(tx_file)
            = FloatSub(AmountSum(OfFlow(Records(tx_file), "Income")),
                       AmountSum(OfFlow(Records(tx_file), "Expense")))

\* an Income of 1 dated eight days before the reading of the clock and a line
\* whose amount is no number: the balance is 1 while the balance of the last
\* 7 days is 0
C20_Witness ==
    /\ Len(tx_file.lines) = 3
    /\ \E i \in 2 .. 3 : Wide(tx_file.lines[i]) /\ tx_file.lines[i].amount = WordText
    /\ update_balance(tx_file) = Num(1)
    /\ update_general_flow(tx_file, "Last 7 days", (7 + 1) * TicksPerDay).total_balance = Num(0)

\* a value of the period selector that is none of the five periods
OtherPeriod == "Custom"

\* C21: for a period selector that is not recognized, the filtered
\* transactions and the day count are those of All Time on the same log at
\* the same reading of the clock.
C21_UnknownAsAllTime ==
    \A current \in WindowTimes :
        /\ Filtered(OtherPeriod, current) = Filtered("All Time", current)
        /\ DayCount(OtherPeriod, current) = DayCount("All Time", current)

\* C21 for the filtered transactions alone
C21_FilterAsAllTime ==
    \A current \in WindowTimes :
        Filtered(OtherPeriod, current) = Filtered("All Time", current)

\* two dates eight days apart: 9 days for All Time, 1 for the other value
C21_DaysDiffer ==
    /\ DayCount("All Time", 0) = 7 + 2
    /\ DayCount(OtherPeriod, 0) = 1

\* the file without the lines whose date strptime does not read
DatesRead(file) ==
    LET Test(t) == Wide(t) => strptime(t.date).k # "ValueError"
    IN  IF ~file.exists \/ file.lines = <<>> THEN file
        ELSE File(<<Head(file.lines)>> \o SelectSeq(Tail(file.lines), Test))

\* C22: for every period selector a transaction whose date does not parse
\* is left out of the filtered transactions and of the dates of the day
\* count: both are those of the log without such transactions.
C22_UnparsedDatesExcluded ==
    \A period \in Periods : \A current \in WindowTimes :
        LET read == get_filtered_transactions(DatesRead(tx_file), period, current)
        IN  /\ Filtered(period, current) = read
            /\ DayCount(period, current)
                   = get_days_in_period(DatesRead(tx_file), period, read, current)

\* C22 for the four windows, and for the day count of every period
C22_InWindowsAndDayCount ==
    \A period \in Periods : \A current \in WindowTimes :
        LET read == get_filtered_transactions(DatesRead(tx_file), period, current)
        IN  /\ period # "All Time" => Filtered(period, current) = read
            /\ DayCount(period, current)
                   = get_days_in_period(DatesRead(tx_file), period, read, current)

\* an Expense of 1 whose date does not parse is in the totals of All Time
C22_CountedInAllTime ==
    /\ Len(tx_file.lines) = 2
    /\ Wide(tx_file.lines[2])
    /\ strptime(tx_file.lines[2].date).k = "ValueError"
    /\ update_general_flow(tx_file, "All Time", 0).total_expenses = Num(1)
    /\ update_general_flow(tx_file, "Last 7 days", 0).total_expenses = Num(0)

\* C23: on every content of the transaction file (missing, without lines,
\* lines with too few columns, amounts that are no numbers, dates that do
\* not parse) calculate_all_time_totals, get_filtered_transactions and
\* get_days_in_period return without raising.
C23_NoCoreRaises ==
    /\ ~calculate_all_time_totals_raises(tx_file)
    /\ ~get_filtered_transactions_raises(tx_file)
    /\ \A period \in Periods : ~get_days_in_period_raises(tx_file, period)

\* C23 over the files that are missing or hold at least one line
C23_OnFilesWithALine == ~StopIteration(tx_file) => C23_NoCoreRaises

\* a file of defective lines alone: every figure is that of the empty log
C23_DefectiveLines ==
    /\ Len(tx_file.lines) = 3
    /\ ~Wide(tx_file.lines[2])
    /\ Wide(tx_file.lines[3])
    /\ tx_file.lines[3].amount = WordText
    /\ tx_file.lines[3].date = WordText
    /\ update_balance(tx_file) = Num(0)
    /\ calculate_label_stats(Filtered("All Time", 0), "Expense") = <<>>
    /\ \A period \in Periods : DayCount(period, 0) = 1

Log(file) == IF file.lines = <<>> THEN <<>> ELSE Tail(file.lines)

\* C25: add_transaction only appends one record at the end of the log;
\* delete_transaction with display index i on a log of n records removes
\* exactly the record at log position n-1-i (from 0), every other record
\* keeping its fields and its place among the others; a delete with an index
\* of n or more changes nothing.
C25_RecordsKept ==
    [][LET n == Len(Log(tx_file))
           i == last'.sel
       IN  /\ last'.op = "add_transaction" =>
                  \/ Log(tx_file') = Log(tx_file)
                  \/ /\ Len(Log(tx_file')) = n + 1
                     /\ SubSeq(Log(tx_file'), 1, n) = Log(tx_file)
           /\ (last'.op = "delete_transaction" /\ i < n) =>
                  /\ Len(Log(tx_file')) = n - 1
                  /\ \A k \in 1 .. (n - 1) :
                         Log(tx_file')[k] = Log(tx_file)[IF k < n - i THEN k ELSE k + 1]
           /\ (last'.op = "delete_transaction" /\ i >= n) =>
                  <<tx_file, labels, types, cwd_types>>'
                      = <<tx_file, labels, types, cwd_types>>]_vars

\* the second of three different records was selected and deleted: the
\* first and the third are left, in this order
C25_Witness ==
    /\ last.op = "delete_transaction"
    /\ last.done
    /\ last.sel = 1
    /\ Len(Log(tx_file)) = 2
    /\ Log(tx_file)[1] # Log(tx_file)[2]
    /\ last.row \notin {Log(tx_file)[1], Log(tx_file)[2]}

\* a delete with the index of a row the log no longer has
C25_PastTheEnd ==
    /\ last.op = "delete_transaction"
    /\ ~last.done
    /\ Len(Log(tx_file)) = 2
    /\ last.sel = 2

\* the log as load_transactions reads it, in the order of the file
Loaded(file) == Reverse(load_transactions(file))

\* what a successful add_transaction of last'.row has to leave
AddedIsLoaded ==
    LET t == last'.row
    IN  /\ Loaded(tx_file') = Loaded(tx_file) \o <<t>>
        /\ calculate_all_time_totals(tx_file') = calculate_totals(Loaded(tx_file) \o <<t>>)
        /\ get_filtered_transactions(tx_file', "All Time", 0) = Loaded(tx_file) \o <<t>>

\* C26: from every state of the store, the one without a transaction file
\* included, a successful add_transaction of t makes the loaded log the log
\* loaded before followed by t: t is shown by load_transactions and counted
\* by calculate_all_time_totals and by the analytics of All Time.
C26_AddIsLoaded ==
    [][(last'.op = "add_transaction" /\ last'.done) => AddedIsLoaded]_vars

\* C26 from the states in which the transaction file is there
C26_OnAnExistingFile ==
    [][(last'.op = "add_transaction" /\ last'.done /\ tx_file.exists) => AddedIsLoaded]_vars

\* the first transaction added without a file is the first line of the file
\* and is not loaded
C26_FirstLineLost ==
    /\ last.op = "add_transaction"
    /\ last.done
    /\ tx_file.lines = <<last.row>>
    /\ load_transactions(tx_file) = <<>>
    /\ update_balance(tx_file) = Num(0)

\* the number of loaded transactions that satisfy a condition on flow, type
\* and label
CountOf(F, type_name, label_names) ==
    Cardinality({k \in 1 .. Len(Loaded(tx_file)) :
                    /\ Loaded(tx_file)[k].flow = F
                    /\ Loaded(tx_file)[k].type = type_name
                    /\ Loaded(tx_file)[k].label \in label_names})

\* C27: from an empty log and catalogs with counters 0 and no entry twice,
\* after any add_transaction and delete_transaction the usage_count of
\* every label is the number of transactions of the log with its flow, type
\* and label, and the usage_count of every type is the number of
\* transactions of the log with its flow and type.
C27_CountersMatchLog ==
    \A F \in Flows :
        /\ \A i \in 1 .. Len(labels[F]) :
               labels[F][i].count = CountOf(F, labels[F][i].type, {labels[F][i].label})
        /\ \A i \in 1 .. Len(types[F]) :
               types[F][i].count = CountOf(F, types[F][i].name, LabelNames)

\* C27 from the log whose file holds its header line
C27_FromTheHeaderFile ==
    (tx_file.lines # <<>> /\ Head(tx_file.lines) = HeaderRow) => C27_CountersMatchLog

\* counters at work from the header file: after three adds and a delete
\* each Expense type and two of the three Expense labels count one
\* transaction
C27_CountersAtWork ==
    /\ tx_file.lines # <<>> /\ Head(tx_file.lines) = HeaderRow
    /\ last.op = "delete_transaction" /\ last.done
    /\ types["Expense"][1].count = 1
    /\ types["Expense"][2].count = 1
    /\ labels["Expense"][1].count = 0
    /\ labels["Expense"][2].count = 1
    /\ labels["Expense"][3].count = 1

\* C28: for Last 7 days, Last 30 days and Last 12 months the day count
\* never exceeds the length N of the window (7, 30, 365): it is N when the
\* earliest transaction of the log is N days old or older, and the smaller
\* number of days of history otherwise.
C28_DayCountWithinWindow ==
    \A period \in Windows : \A current \in WindowTimes :
        DayCount(period, current) <= WindowLength(period)

\* the day count is at most one more than the length of the window
C28_AtMostOneMore ==
    \A period \in Windows : \A current \in WindowTimes :
        DayCount(period, current) <= WindowLength(period) + 1

\* a transaction dated 8 days before the reading of the clock: 8 days for
\* Last 7 days
C28_EightDays ==
    /\ Len(tx_file.lines) = 2
    /\ tx_file.lines[2].date = DateText(0)
    /\ DayCount("Last 7 days", (7 + 1) * TicksPerDay) = 7 + 1

\* C29: deleting the selected label removes from the label catalog of its
\* flow the selected entry alone: every other entry, a label of the same
\* name under another type included, stays with its usage count, and the
\* type catalogs and the catalogs of the other flow are unchanged.
C29_OnlySelectedLabel ==
    [][last'.op = "delete_item_label" =>
           /\ labels'[last'.flow] = RemoveAt(labels[last'.flow], last'.sel)
           /\ \A f \in Flows \ {last'.flow} : labels'[f] = labels[f]
           /\ types' = types]_vars

\* what the delete of a label leaves: the entries of other names, the type
\* catalogs and the other flow's catalog
C29_OtherNamesKept ==
    [][last'.op = "delete_item_label" =>
           LET OtherName(r) == r.label # last'.row.label
           IN  /\ labels'[last'.flow] = SelectSeq(labels[last'.flow], OtherName)
               /\ \A f \in Flows \ {last'.flow} : labels'[f] = labels[f]
               /\ types' = types]_vars

\* a is b with some of its elements left out
RECURSIVE IsSubsequence(_, _)
IsSubsequence(a, b) ==
    IF a = <<>> THEN TRUE
    ELSE IF b = <<>> THEN FALSE
    ELSE IF Head(a) = Head(b) THEN IsSubsequence(Tail(a), Tail(b))
    ELSE IsSubsequence(a, Tail(b))

\* the periods from the narrowest to the widest
Nested == <<"Today", "Last 7 days", "Last 30 days", "Last 12 months", "All Time">>

\* C30: on a log whose dates all parse, at one reading of the clock, the
\* transactions of Today are a subsequence of those of Last 7 days, these of
\* those of Last 30 days, these of those of Last 12 months, these of those
\* of All Time, and these of the log: every filter keeps the order of the
\* log and adds no record.
C30_NestedFilters ==
    \A current \in WindowTimes :
        /\ \A i \in 1 .. (Len(Nested) - 1) :
               IsSubsequence(Filtered(Nested[i], current), Filtered(Nested[i + 1], current))
        /\ IsSubsequence(Filtered("All Time", current), Log(tx_file))

\* at some reading of the clock Today has none of the two transactions,
\* Last 7 days the later one, Last 30 days both
C30_Witness ==
    \E current \in WindowTimes :
        /\ Filtered("Today", current) = <<>>
        /\ Len(Filtered("Last 7 days", current)) = 1
        /\ Len(Filtered("Last 30 days", current)) = 2
        /\ Filtered("Last 7 days", current)[1] = Filtered("Last 30 days", current)[2]

====
